---- MODULE Spec2Model ----
(***************************************************************************)
(* The placement portal's record store and verification workflow           *)
(* (server.js): Student, Placement and Notification collections, the       *)
(* request handlers that mutate them, and the startup consistency sweep.   *)
(* Every request handler is an operator from the database it finds and its *)
(* inputs (the caller's session, the request body, and the outcome of the  *)
(* external collaborators: the notification write, the mail transport, the *)
(* image host) to the database it leaves and the response it sends; the    *)
(* handler's action installs that database.                                *)
(***************************************************************************)
EXTENDS Integers, Sequences, FiniteSets, TLC

VARIABLES
    students,       \* Student collection: _id -> document
    placements,     \* Placement collection: _id -> document
    notifications,  \* Notification collection, in creation order
    nextSid,        \* next fresh Student _id
    nextPid,        \* next fresh Placement _id
    swept,          \* checkStudentVerification has run
    companies,      \* Company collection, in the order a find returns it
    name,           \* the company name of the report row being assembled
    stored,         \* the logo stored on that row
    out,            \* what the last report function applied has returned
    logs,           \* ActivityLog collection, in creation order
    files,          \* the files of the logos folder, in the order readdir lists them
    pc              \* where each startup pass or request in flight stands

vars == <<students, placements, notifications, nextSid, nextPid, swept,
          companies, name, stored, out, logs, files, pc>>

\* the variables of report assembly, which no request handler of the store writes
reportVars == <<companies, name, stored, out>>

\* the audit log, the logos folder and the control state
sideVars == <<logs, files, pc>>

\* the database as a handler finds it
Store ==
    [students |-> students, placements |-> placements,
     notifications |-> notifications, nextSid |-> nextSid, nextPid |-> nextPid]

----------------------------------------------------------------------------
(* Bounds of the model *)

MaxStudents == 3        \* Student documents ever created (two exist at start)
MaxPlacements == 1      \* Placement documents ever created
MaxNotifs == 2          \* Notification documents ever created

----------------------------------------------------------------------------
(* Values *)

StudentIds == {"S1", "S2"}              \* stored student identifiers
RawIds == {"S2", "s2", ""}     \* identifiers an admin types into a request

Statuses == {"verified", "pending", "rejected"}

\* request bodies { company, salary, logo } of a submission or an edit
Payloads ==
    { [company |-> "Google", salary |-> "12", logo |-> ""],
      [company |-> "TCS", salary |-> "5", logo |-> "tcs.png"],
      [company |-> "google", salary |-> "abc", logo |-> ""] }

NoPhoto == ""

AdminUser == [id |-> "ADMIN001", role |-> "admin"]
StudentUser(sid) == [id |-> sid, role |-> "student"]
NoSession == [id |-> "", role |-> "guest"]

\* req.session.user of a request: none, the admin, or a logged-in student
Callers == {NoSession, AdminUser} \cup {StudentUser(s) : s \in StudentIds}

\* request ids: an ObjectId of either collection, or a string that is no ObjectId
BadId == <<"bad", 0>>
StudentOid(n) == <<"student", n>>
PlacementOid(n) == <<"placement", n>>
RequestIds ==
    {StudentOid(n) : n \in 1..MaxStudents}
        \cup {PlacementOid(n) : n \in 1..MaxPlacements} \cup {BadId}

VerifyTypes == {"placement", "original"}
VerifyActions == {"approve", "reject"}

\* the outcome of the collaborators during one request: whether the Notification
\* write is refused, and whether the mail transport delivers
NoFault == [writeFails |-> FALSE, mailOk |-> TRUE]
Outcomes ==
    {NoFault, [writeFails |-> TRUE, mailOk |-> TRUE], [writeFails |-> FALSE, mailOk |-> FALSE]}
MailOutcomes == {e \in Outcomes : ~e.writeFails}

\* a response: the HTTP status, the body's success flag, and the send attempts
\* the handler handed to sendEmail without waiting for them (fire-and-forget)
NoMail == <<>>
Response(code, success, sent) == [code |-> code, success |-> success, mail |-> sent]

\* what a handler does: the database it leaves and the response it sends
Result(st, r) == [store |-> st, resp |-> r]

----------------------------------------------------------------------------
(* String conversions *)

toUpperCase(s) ==
    CASE s = "s1" -> "S1"
      [] s = "s2" -> "S2"
      [] OTHER -> s

toLowerCase(s) ==
    CASE s = "S1" -> "s1"
      [] s = "S2" -> "s2"
      [] s = "Google" -> "google"
      [] s = "TCS" -> "tcs"
      [] OTHER -> s

\* `${id.toLowerCase()}@gniindia.org`
studentEmail(id) ==
    CASE toLowerCase(id) = "s1" -> "s1@gniindia.org"
      [] toLowerCase(id) = "s2" -> "s2@gniindia.org"
      [] OTHER -> "@gniindia.org"

\* process.env.EMAIL_USER
EMAIL_USER == "EMAIL_USER"

\* parseFloat of the salary field
parseFloat(s) ==
    CASE s = "12" -> [nan |-> FALSE, val |-> 12]
      [] s = "5" -> [nan |-> FALSE, val |-> 5]
      [] OTHER -> [nan |-> TRUE, val |-> 0]

\* a variant of sendEmail that hands nothing to the transport
sendEmailDropped(to, transportOk) == NoMail

\* sendEmail: resolves true when the transport accepts, false when it throws
sendEmail(to, transportOk) == <<[to |-> to, ok |-> transportOk]>>

\* result.secure_url of an upload with public_id = the student's id
photoUrl(id) == "https://res.cloudinary.com/student_photos/" \o id

----------------------------------------------------------------------------
(* Queries *)

Min(S) == CHOOSE x \in S : \A y \in S : x <= y

\* { id: { $regex: new RegExp(`^${raw}$`, 'i') } }: the _ids that match
regexMatches(raw) ==
    {o \in DOMAIN students : toUpperCase(students[o].id) = toUpperCase(raw)}

\* Student.findOne({ id: <regex> }): the first match in _id order, 0 for null
findStudentRegex(raw) ==
    IF regexMatches(raw) = {} THEN 0 ELSE Min(regexMatches(raw))

\* Student.findOne({ id: sid }): exact match, 0 for null
findStudentExact(sid) ==
    IF {o \in DOMAIN students : students[o].id = sid} = {} THEN 0
    ELSE Min({o \in DOMAIN students : students[o].id = sid})

\* a variant of requireAdmin that lets every logged-in caller through
requireAnyLogin(caller) == caller.role # "guest"

requireAdmin(caller) == caller.role = "admin"
requireStudent(caller) == caller.role = "student"

\* recipient, title and type of the notification a verify of a placement raises
verifyTitle(status) ==
    IF status = "verified" THEN "Official Record: VERIFIED" ELSE "Record Needs Revision"

verifyType(status) == IF status = "verified" THEN "success" ELSE "warning"

\* a variant of createNotification without the try: a refused write reaches the caller
createNotificationUncaught(ns, recipient, title, type, writeFails) ==
    [notifications |->
        IF writeFails THEN ns
        ELSE Append(ns, [recipient |-> recipient, title |-> title,
                         type |-> type, read |-> FALSE]),
     threw |-> writeFails]

\* a variant of createNotification that keeps the latest notification only
createNotificationLatestOnly(ns, recipient, title, type, writeFails) ==
    [notifications |->
        IF writeFails THEN ns
        ELSE <<[recipient |-> recipient, title |-> title,
                type |-> type, read |-> FALSE]>>,
     threw |-> FALSE]

\* createNotification: Notification.create inside a try whose catch only logs, so
\* the helper never rejects. `threw` is whether its caller sees an exception.
createNotification(ns, recipient, title, type, writeFails) ==
    [notifications |->
        IF writeFails THEN ns
        ELSE Append(ns, [recipient |-> recipient, title |-> title,
                         type |-> type, read |-> FALSE]),
     threw |-> FALSE]

\* the handlers' own catch: res.status(500).json({ error })
serverError(st) == Result(st, Response(500, FALSE, NoMail))

----------------------------------------------------------------------------
\* no report is being assembled
NoName == <<"null">>
NoOut == [op |-> "none"]

ReportIdle ==
    /\ companies = <<>>
    /\ name = NoName
    /\ stored = ""
    /\ out = NoOut

\* no entry is logged, the logos folder is empty, nothing is running
NoneRunning == <<>>
SideIdle ==
    /\ logs = <<>>
    /\ files = <<>>
    /\ pc = NoneRunning

\* the store when the server starts
StoreAtStart ==
    /\ SideIdle
    /\ students =
        (1 :> [id |-> "S1", photo |-> photoUrl("S1"), company |-> "TCS", logo |-> "tcs.png",
               verificationStatus |-> "verified"])
        @@ (2 :> [id |-> "S2", photo |-> NoPhoto, company |-> "", logo |-> "",
                  verificationStatus |-> "verified"])
    /\ placements = <<>>
    /\ notifications = <<>>
    /\ nextSid = 3
    /\ nextPid = 1
    /\ swept = FALSE

Init == StoreAtStart /\ ReportIdle

\* what a handler adds to the database stays within the bounds of the model
WithinBounds(st) ==
    /\ Len(st.notifications) <= MaxNotifs
    /\ (st.nextPid > nextPid => st.nextPid <= MaxPlacements + 1)
    /\ st.nextSid <= MaxStudents + 1

\* a handler's action: the database becomes the one the handler leaves
Install(st) ==
    /\ students' = st.students
    /\ placements' = st.placements
    /\ notifications' = st.notifications
    /\ nextSid' = st.nextSid
    /\ nextPid' = st.nextPid
    /\ UNCHANGED <<swept, reportVars, sideVars>>

----------------------------------------------------------------------------
(* POST /api/admin/verify *)

\* a variant of verifyStatus with the two outcomes exchanged
verifyStatusSwapped(action) == IF action = "approve" THEN "rejected" ELSE "verified"

verifyStatus(action) == IF action = "approve" THEN "verified" ELSE "rejected"

\* the `type === 'placement'` branch
verifyPlacement(id, status, env) ==
    IF id = BadId
    THEN \* findByIdAndUpdate rejects with a CastError: the handler's catch answers
        serverError(Store)
    ELSE IF id[1] = "placement" /\ id[2] \in DOMAIN placements
    THEN LET p == placements[id[2]]
             s == findStudentExact(p.studentId)
             updated == [Store EXCEPT
                            !.placements[id[2]].verificationStatus = status]
         IN  IF s # 0
             THEN LET c == createNotification(notifications, students[s].id,
                               verifyTitle(status), verifyType(status), env.writeFails)
                  IN  IF c.threw THEN serverError(updated)
                      ELSE Result(
                            [updated EXCEPT !.notifications = c.notifications],
                            Response(200, TRUE,
                                sendEmail(studentEmail(students[s].id), env.mailOk)))
             ELSE Result(updated, Response(200, TRUE, NoMail))
    ELSE Result(Store, Response(200, TRUE, NoMail))

\* the `type === 'original'` branch
verifyOriginal(id, status, env) ==
    IF id = BadId
    THEN serverError(Store)
    ELSE IF id[1] = "student" /\ id[2] \in DOMAIN students
    THEN LET updated == [Store EXCEPT
                            !.students[id[2]].verificationStatus = status]
             c == createNotification(notifications, students[id[2]].id,
                      "Profile Status Update", "info", env.writeFails)
         IN  IF c.threw THEN serverError(updated)
             ELSE Result([updated EXCEPT !.notifications = c.notifications],
                         Response(200, TRUE, NoMail))
    ELSE Result(Store, Response(200, TRUE, NoMail))

verify(caller, type, id, action, env) ==
    IF ~requireAdmin(caller)
    THEN Result(Store, Response(401, FALSE, NoMail))
    ELSE CASE type = "placement" -> verifyPlacement(id, verifyStatus(action), env)
           [] type = "original" -> verifyOriginal(id, verifyStatus(action), env)
           [] OTHER -> Result(Store, Response(200, TRUE, NoMail))

Verify(caller, type, id, action, env) ==
    /\ WithinBounds(verify(caller, type, id, action, env).store)
    /\ Install(verify(caller, type, id, action, env).store)

----------------------------------------------------------------------------
(* POST /api/placements *)

\* a variant of lacksPhoto that only notices a missing student document
lacksPhotoNoStudent(s) == s = 0

\* `!student?.photo`: no student document, or a null or empty photo
lacksPhoto(s) == IF s = 0 THEN TRUE ELSE students[s].photo = NoPhoto

\* a variant of newPlacement that leaves the status to the schema's default
newPlacementSchemaDefault(caller, s, body) ==
    [studentId |-> caller.id,
     company |-> body.company,
     salary |-> parseFloat(body.salary).val,
     logo |-> IF body.logo # "" THEN body.logo ELSE students[s].logo,
     photo |-> students[s].photo,
     verificationStatus |-> "verified",
     isOriginal |-> FALSE]

\* the document Placement.create is given
newPlacement(caller, s, body) ==
    [studentId |-> caller.id,
     company |-> body.company,
     salary |-> parseFloat(body.salary).val,
     logo |-> IF body.logo # "" THEN body.logo ELSE students[s].logo,
     photo |-> students[s].photo,
     verificationStatus |-> "pending",
     isOriginal |-> FALSE]

\* a variant of submissionNotice addressed to the submitting student
submissionNoticeToStudent(ns, caller, writeFails) ==
    createNotification(ns, caller.id, "New Placement Submission", "info", writeFails)

\* createNotification('admin', 'New Placement Submission', ..., 'info')
submissionNotice(ns, caller, writeFails) ==
    createNotification(ns, "admin", "New Placement Submission", "info", writeFails)

submitPlacement(caller, body, env) ==
    IF ~requireStudent(caller)
    THEN Result(Store, Response(302, FALSE, NoMail))
    ELSE LET s == findStudentRegex(caller.id) IN
         IF lacksPhoto(s)
         THEN Result(Store, Response(400, FALSE, NoMail))
         ELSE IF parseFloat(body.salary).nan
         THEN \* Placement.create rejects: NaN is no Number
              serverError(Store)
         ELSE LET created == [Store EXCEPT
                                !.placements =
                                    placements @@ (nextPid :> newPlacement(caller, s, body)),
                                !.nextPid = nextPid + 1]
                  c == submissionNotice(notifications, caller, env.writeFails)
              IN  IF c.threw THEN serverError(created)
                  ELSE Result([created EXCEPT !.notifications = c.notifications],
                              Response(200, TRUE, sendEmail(EMAIL_USER, env.mailOk)))

SubmitPlacement(caller, body, env) ==
    /\ WithinBounds(submitPlacement(caller, body, env).store)
    /\ Install(submitPlacement(caller, body, env).store)

----------------------------------------------------------------------------
(* PUT /api/placements/:id, the request PlacementService.updatePlacement sends *)
(* for the student page's submitEdit. The handler is not part of server.js;   *)
(* it is modelled from the specification: scoped to the authenticated         *)
(* student's own submitted placement, same body as a submission, and it       *)
(* always forces the status back to pending.                                  *)

\* a variant of editedPlacement that writes the content and leaves the status
editedPlacementKeepsStatus(doc, body) ==
    [doc EXCEPT !.company = body.company,
                !.salary = parseFloat(body.salary).val,
                !.logo = body.logo]

\* the edit's update document: the new content, and the status forced to pending
editedPlacement(doc, body) ==
    [doc EXCEPT !.company = body.company,
                !.salary = parseFloat(body.salary).val,
                !.logo = body.logo,
                !.verificationStatus = "pending"]

updatePlacement(caller, id, body) ==
    IF ~requireStudent(caller)
    THEN Result(Store, Response(302, FALSE, NoMail))
    ELSE IF id = BadId \/ parseFloat(body.salary).nan
    THEN serverError(Store)
    ELSE LET own == {n \in DOMAIN placements :
                        /\ id = PlacementOid(n)
                        /\ placements[n].studentId = caller.id
                        /\ ~placements[n].isOriginal}
         IN  IF own = {}
             THEN Result(Store, Response(404, FALSE, NoMail))
             ELSE Result(
                    [Store EXCEPT !.placements =
                        [n \in DOMAIN placements |->
                            IF n \in own THEN editedPlacement(placements[n], body)
                            ELSE placements[n]]],
                    Response(200, TRUE, NoMail))

UpdatePlacement(caller, id, body) ==
    /\ WithinBounds(updatePlacement(caller, id, body).store)
    /\ Install(updatePlacement(caller, id, body).store)

----------------------------------------------------------------------------
(* DELETE /api/placements/:id *)

\* a variant of deleteFilter without the owner and the isOriginal conditions
deleteFilterIdOnly(n, caller, id) == id = PlacementOid(n)

\* the filter { _id: req.params.id, studentId: req.session.user.id, isOriginal: false }
deleteFilter(n, caller, id) ==
    /\ id = PlacementOid(n)
    /\ placements[n].studentId = caller.id
    /\ ~placements[n].isOriginal

deletePlacement(caller, id) ==
    IF ~requireStudent(caller)
    THEN Result(Store, Response(302, FALSE, NoMail))
    ELSE IF id = BadId
    THEN serverError(Store)
    ELSE LET hit == {n \in DOMAIN placements : deleteFilter(n, caller, id)}
         IN  Result(
                [Store EXCEPT !.placements =
                    [n \in DOMAIN placements \ hit |-> placements[n]]],
                Response(200, hit # {}, NoMail))

DeletePlacement(caller, id) ==
    /\ WithinBounds(deletePlacement(caller, id).store)
    /\ Install(deletePlacement(caller, id).store)

----------------------------------------------------------------------------
(* POST /api/upload-photo *)

\* a variant of photoUpdate that stores the photo and leaves the status
photoUpdateKeepsStatus(doc, url) == [doc EXCEPT !.photo = url]

\* the update document { photo: photoUrl, verificationStatus: 'pending' }
photoUpdate(doc, url) == [doc EXCEPT !.photo = url, !.verificationStatus = "pending"]

uploadPhoto(caller, hasFile, cloudOk) ==
    IF ~requireStudent(caller)
    THEN Result(Store, Response(302, FALSE, NoMail))
    ELSE IF ~hasFile
    THEN Result(Store, Response(400, FALSE, NoMail))
    ELSE IF ~cloudOk
    THEN \* uploadToCloudinary rejects
         serverError(Store)
    ELSE LET s == findStudentRegex(caller.id) IN
         Result(
            [Store EXCEPT !.students =
                IF s = 0 THEN students
                ELSE [students EXCEPT ![s] = photoUpdate(students[s], photoUrl(caller.id))]],
            Response(200, TRUE, NoMail))

UploadPhoto(caller, hasFile, cloudOk) ==
    /\ WithinBounds(uploadPhoto(caller, hasFile, cloudOk).store)
    /\ Install(uploadPhoto(caller, hasFile, cloudOk).store)

----------------------------------------------------------------------------
(* POST /api/students/create and DELETE /api/students/:id *)

createStudent(caller, raw, env) ==
    IF ~requireAdmin(caller)
    THEN Result(Store, Response(401, FALSE, NoMail))
    ELSE IF raw = "" \/ findStudentRegex(raw) # 0
    THEN Result(Store, Response(400, FALSE, NoMail))
    ELSE Result(
            [Store EXCEPT
                !.students = students @@ (nextSid :>
                    [id |-> toUpperCase(raw), photo |-> NoPhoto, company |-> "", logo |-> "",
                     verificationStatus |-> "verified"]),
                !.nextSid = nextSid + 1],
            Response(200, TRUE, sendEmail(studentEmail(raw), env.mailOk)))

CreateStudent(caller, raw, env) ==
    /\ WithinBounds(createStudent(caller, raw, env).store)
    /\ Install(createStudent(caller, raw, env).store)

deleteStudent(caller, raw, env) ==
    IF ~requireAdmin(caller)
    THEN Result(Store, Response(401, FALSE, NoMail))
    ELSE LET s == findStudentRegex(raw) IN
         Result(
            [Store EXCEPT
                !.students = [o \in DOMAIN students \ {s} |-> students[o]],
                !.placements =
                    [n \in {m \in DOMAIN placements :
                               toUpperCase(placements[m].studentId) # toUpperCase(raw)}
                        |-> placements[n]]],
            Response(200, TRUE, sendEmail(studentEmail(raw), env.mailOk)))

DeleteStudent(caller, raw, env) ==
    /\ WithinBounds(deleteStudent(caller, raw, env).store)
    /\ Install(deleteStudent(caller, raw, env).store)

----------------------------------------------------------------------------
(* checkStudentVerification, started once when the database connects *)

checkStudentVerification ==
    /\ ~swept
    /\ swept' = TRUE
    /\ students' = [o \in DOMAIN students |->
            IF students[o].photo = NoPhoto
            THEN [students[o] EXCEPT !.verificationStatus = "pending"]
            ELSE students[o]]
    /\ UNCHANGED <<placements, notifications, nextSid, nextPid, reportVars, sideVars>>

----------------------------------------------------------------------------
(* Requests. A handler that turns the caller away before it reads the request *)
(* leaves the database as it is whatever the request holds: the next-state    *)
(* relation runs it once per such caller, on one request.                     *)

Students == Callers \ {AdminUser, NoSession}

AnyBody == CHOOSE b \in Payloads : TRUE

Next ==
    \/ \E type \in VerifyTypes, id \in RequestIds, action \in VerifyActions,
          env \in Outcomes :
            Verify(AdminUser, type, id, action, env)
    \/ \E caller \in Callers \ {AdminUser} :
            Verify(caller, "placement", BadId, "approve", NoFault)
    \/ \E caller \in Students, body \in Payloads, env \in Outcomes :
            SubmitPlacement(caller, body, env)
    \/ \E caller \in Callers \ Students : SubmitPlacement(caller, AnyBody, NoFault)
    \/ \E caller \in Students, id \in RequestIds, body \in Payloads :
            UpdatePlacement(caller, id, body)
    \/ \E caller \in Callers \ Students : UpdatePlacement(caller, BadId, AnyBody)
    \/ \E caller \in Students, id \in RequestIds : DeletePlacement(caller, id)
    \/ \E caller \in Callers \ Students : DeletePlacement(caller, BadId)
    \/ \E caller \in Students, hasFile \in BOOLEAN, cloudOk \in BOOLEAN :
            UploadPhoto(caller, hasFile, cloudOk)
    \/ \E caller \in Callers \ Students : UploadPhoto(caller, TRUE, TRUE)
    \/ \E raw \in RawIds, env \in MailOutcomes : CreateStudent(AdminUser, raw, env)
    \/ \E caller \in Callers \ {AdminUser} : CreateStudent(caller, "S2", NoFault)
    \/ \E raw \in RawIds, env \in MailOutcomes : DeleteStudent(AdminUser, raw, env)
    \/ \E caller \in Callers \ {AdminUser} : DeleteStudent(caller, "S2", NoFault)
    \/ checkStudentVerification

Spec == Init /\ [][Next]_vars

----------------------------------------------------------------------------
(* Deletion over a store that holds imported records. The Placement schema    *)
(* keeps isOriginal for original imported data, which no route creates: the   *)
(* store starts with two Placements of any owner, origin and status, and the  *)
(* requests are the two routes that remove Placements.                        *)

ImportedPlacements ==
    [studentId : StudentIds, company : {"TCS"}, salary : {5}, logo : {"tcs.png"},
     photo : {NoPhoto}, verificationStatus : Statuses, isOriginal : BOOLEAN]

InitImported ==
    /\ students =
        (1 :> [id |-> "S1", photo |-> photoUrl("S1"), company |-> "TCS", logo |-> "tcs.png",
               verificationStatus |-> "verified"])
        @@ (2 :> [id |-> "S2", photo |-> NoPhoto, company |-> "", logo |-> "",
                  verificationStatus |-> "verified"])
    /\ \E p1 \in ImportedPlacements, p2 \in ImportedPlacements :
            placements = (1 :> p1) @@ (2 :> p2)
    /\ notifications = <<>>
    /\ nextSid = 3
    /\ nextPid = 3
    /\ swept = FALSE
    /\ ReportIdle
    /\ SideIdle

\* every id a delete request can name in these stores
DeleteIds == RequestIds \cup {PlacementOid(2)}

NextDelete ==
    \/ \E caller \in Students, id \in DeleteIds : DeletePlacement(caller, id)
    \/ \E caller \in Callers \ Students : DeletePlacement(caller, BadId)
    \/ \E raw \in RawIds, env \in MailOutcomes : DeleteStudent(AdminUser, raw, env)
    \/ \E caller \in Callers \ {AdminUser} : DeleteStudent(caller, "S2", NoFault)

SpecDelete == InitImported /\ [][NextDelete]_vars

----------------------------------------------------------------------------
(* normalizeCompanyName. A company name is the sequence of its characters.    *)

UpperLetters == <<"A", "B", "C", "D", "E", "F", "G", "H", "I", "J", "K", "L", "M", "N", "O", "P", "Q", "R", "S", "T", "U", "V", "W", "X", "Y", "Z">>
LowerLetters == <<"a", "b", "c", "d", "e", "f", "g", "h", "i", "j", "k", "l", "m", "n", "o", "p", "q", "r", "s", "t", "u", "v", "w", "x", "y", "z">>
Digits == {"0", "1", "2", "3", "4", "5", "6", "7", "8", "9"}

Range(f) == {f[i] : i \in DOMAIN f}

\* String.prototype.toLowerCase, character by character
lowerChar(c) ==
    IF c \in Range(UpperLetters)
    THEN LowerLetters[CHOOSE i \in DOMAIN UpperLetters : UpperLetters[i] = c]
    ELSE c

toLowerCaseName(w) == [i \in DOMAIN w |-> lowerChar(w[i])]

\* a character /\s/ matches
isSpace(c) == c \in {" ", "\t", "\n"}

\* a character /[^a-z0-9]/gi leaves in place
isAlnum(c) == c \in Range(LowerLetters) \cup Range(UpperLetters) \cup Digits

\* the alternatives of /(technologies|tech|solutions|pvt|ltd|limited|private|inc|llp)$/gi
SuffixTokens ==
    { <<"t", "e", "c", "h", "n", "o", "l", "o", "g", "i", "e", "s">>,
      <<"t", "e", "c", "h">>,
      <<"s", "o", "l", "u", "t", "i", "o", "n", "s">>,
      <<"p", "v", "t">>, <<"l", "t", "d">>,
      <<"l", "i", "m", "i", "t", "e", "d">>,
      <<"p", "r", "i", "v", "a", "t", "e">>,
      <<"i", "n", "c">>, <<"l", "l", "p">> }

\* .replace(/(...)$/gi, ''): the match is anchored at the end of the input, so one
\* token is removed, the one whose match starts leftmost
stripSuffix(w) ==
    IF \E i \in 1..Len(w) : toLowerCaseName(SubSeq(w, i, Len(w))) \in SuffixTokens
    THEN SubSeq(w, 1,
            (CHOOSE i \in 1..Len(w) :
                /\ toLowerCaseName(SubSeq(w, i, Len(w))) \in SuffixTokens
                /\ \A j \in 1..(i - 1) :
                    toLowerCaseName(SubSeq(w, j, Len(w))) \notin SuffixTokens) - 1)
    ELSE w

\* String.prototype.trim
RECURSIVE trim(_)
trim(w) ==
    IF w # <<>> /\ isSpace(w[1]) THEN trim(Tail(w))
    ELSE IF w # <<>> /\ isSpace(w[Len(w)]) THEN trim(SubSeq(w, 1, Len(w) - 1))
    ELSE w

normalizeCompanyName(w) ==
    IF w = NoName \/ w = <<>> THEN <<>>
    ELSE trim(stripSuffix(
            SelectSeq(SelectSeq(toLowerCaseName(w), LAMBDA c : ~isSpace(c)), isAlnum)))

\* most suffix words appended to a base name
MaxSuffixWords == 2

Google == <<"G", "o", "o", "g", "l", "e">>
BaseNames == {<<>>, Google, <<"T", "C", "S">>, <<"A", "T", "&", "T">>}

\* the suffix words as they are written in a company name
SuffixWords ==
    { <<"T", "e", "c", "h", "n", "o", "l", "o", "g", "i", "e", "s">>,
      <<"T", "e", "c", "h">>,
      <<"S", "o", "l", "u", "t", "i", "o", "n", "s">>,
      <<"P", "v", "t">>, <<"L", "t", "d">>,
      <<"L", "i", "m", "i", "t", "e", "d">>,
      <<"P", "r", "i", "v", "a", "t", "e">>,
      <<"I", "n", "c">>, <<"L", "L", "P">> }

Separators == {<<" ">>, <<>>}
Endings == {<<>>, <<".">>}

RECURSIVE NamesUpTo(_)
NamesUpTo(k) ==
    IF k = 0 THEN BaseNames
    ELSE NamesUpTo(k - 1) \cup
         {n \o sep \o t : n \in NamesUpTo(k - 1), sep \in Separators, t \in SuffixWords}

\* the company names given to the normalizer: a base name, up to MaxSuffixWords
\* suffix words, and possibly a final dot; or no name at all
Names == {n \o e : n \in NamesUpTo(MaxSuffixWords), e \in Endings} \cup {NoName}

InitNormalize ==
    /\ StoreAtStart
    /\ companies = <<>>
    /\ stored = ""
    /\ out = NoOut
    /\ name \in Names

Normalize ==
    /\ out = NoOut
    /\ out' = [op |-> "normalize", key |-> normalizeCompanyName(name)]
    /\ UNCHANGED <<students, placements, notifications, nextSid, nextPid, swept,
                   companies, name, stored, sideVars>>

NextNormalize == Normalize

SpecNormalize == InitNormalize /\ [][NextNormalize]_vars

----------------------------------------------------------------------------
(* Logo resolution of a report row: GET /download/word on the server, and     *)
(* getCompanyLogo with the exports of the admin dashboard on the client.      *)

\* most Company documents in the registry
MaxCompanies == 2

GoogleLtd == <<"G", "o", "o", "g", "l", "e", " ", "L", "t", "d">>
TCS == <<"T", "C", "S">>
RegistryNames == {Google, GoogleLtd, TCS}

\* the logo a Company document may hold: none (added without a file, or cleared
\* by syncCompanies), a file of the logos folder, or a Cloudinary URL
LogosOf(n) ==
    CASE n = Google ->
            {"", "Google.png",
             "https://res.cloudinary.com/sb/image/upload/company_logos/google.png"}
      [] n = GoogleLtd ->
            {"", "Google Ltd.png",
             "https://res.cloudinary.com/sb/image/upload/company_logos/googleltd.png"}
      [] OTHER ->
            {"", "TCS.png",
             "https://res.cloudinary.com/sb/image/upload/company_logos/tcs.png"}

CompanyDocs == UNION {{[name |-> n, logo |-> l] : l \in LogosOf(n)} : n \in RegistryNames}

\* the registries: up to MaxCompanies documents, their names unique
Registries ==
    {r \in UNION {[1..k -> CompanyDocs] : k \in 0..MaxCompanies} :
        \A i \in DOMAIN r, j \in DOMAIN r : r[i].name = r[j].name => i = j}

\* the company names on report rows
RowNames ==
    { <<>>, Google, TCS,
      <<"G", "O", "O", "G", "L", "E">>,
      <<"G", "o", "o", "g", "l", "e", " ", "P", "v", "t">>,
      <<"G", "o", "o", "g", "l", "e", " ", "P", "v", "t", " ", "L", "t", "d">>,
      <<"G", "o", "o", "g", "l", "e", "p", "l", "e", "x">>,
      <<"P", "v", "t">> }

\* the logos stored on report rows
StoredLogos ==
    {"", "tcs.png", "https://res.cloudinary.com/sb/image/upload/v1/stored.png",
     "https://logo.example.org/stored.png"}

\* logo.includes('cloudinary.com')
includesCloudinary(l) ==
    l \in {"https://res.cloudinary.com/sb/image/upload/company_logos/google.png",
           "https://res.cloudinary.com/sb/image/upload/company_logos/googleltd.png",
           "https://res.cloudinary.com/sb/image/upload/company_logos/tcs.png",
           "https://res.cloudinary.com/sb/image/upload/v1/stored.png"}

Max(S) == CHOOSE x \in S : \A y \in S : x >= y

\* companyLogoMap[key]: companies.forEach overwrites, so the last document whose
\* name has this key gives the logo; "" for undefined
companyLogoMap(key) ==
    LET hits == {i \in DOMAIN companies : normalizeCompanyName(companies[i].name) = key}
    IN  IF hits = {} THEN "" ELSE companies[Max(hits)].logo

\* the Company collection lookup of the Word report
registryLogo(nm) ==
    LET companyName == normalizeCompanyName(nm)
    IN  IF companyName # <<>> /\ companyLogoMap(companyName) # ""
        THEN companyLogoMap(companyName) ELSE ""

\* logoUrl of a row of the Word report, before the image is fetched
wordLogo(nm, st) ==
    IF registryLogo(nm) # "" THEN registryLogo(nm)
    ELSE IF st # "" /\ includesCloudinary(st) THEN st
    ELSE ""

\* a variant of normalize that leaves the case of the name as it is
normalizeCaseKept(w) ==
    trim(stripSuffix(
        SelectSeq(SelectSeq(w, LAMBDA c : ~isSpace(c)),
                  LAMBDA c : c \in Range(LowerLetters) \cup Digits)))

\* the dashboard's own normalize
normalize(w) ==
    trim(stripSuffix(
        SelectSeq(SelectSeq(toLowerCaseName(w), LAMBDA c : ~isSpace(c)),
                  LAMBDA c : c \in Range(LowerLetters) \cup Digits)))

\* String.prototype.includes
includes(w, part) ==
    \E i \in 0..(Len(w) - Len(part)) : SubSeq(w, i + 1, i + Len(part)) = part

\* getCompanyLogo: "" for null
getCompanyLogo(companyName) ==
    IF companyName = NoName \/ companyName = <<>> THEN ""
    ELSE LET normalizedSearch == normalize(companyName)
             exact == {i \in DOMAIN companies :
                          normalize(companies[i].name) = normalizedSearch}
             contains == {i \in DOMAIN companies :
                          \/ includes(normalize(companies[i].name), normalizedSearch)
                          \/ includes(normalizedSearch, normalize(companies[i].name))}
             company == IF exact # {} THEN Min(exact)
                        ELSE IF contains # {} THEN Min(contains) ELSE 0
         IN  IF company # 0 /\ includesCloudinary(companies[company].logo)
             THEN companies[company].logo ELSE ""

\* logoUrl of a row of the dashboard's exports
dashboardLogo(nm, st) ==
    IF getCompanyLogo(nm) # "" THEN getCompanyLogo(nm)
    ELSE IF st # "" /\ includesCloudinary(st) THEN st
    ELSE ""

InitReport ==
    /\ StoreAtStart
    /\ companies \in Registries
    /\ name \in RowNames
    /\ stored \in StoredLogos
    /\ out = NoOut

\* one row of GET /download/word
WordReportRow ==
    /\ out' = [op |-> "word", logo |-> wordLogo(name, stored)]
    /\ UNCHANGED <<students, placements, notifications, nextSid, nextPid, swept,
                   companies, name, stored, sideVars>>

\* one row of exportToWord or exportToExcel: a placement is listed when its
\* company is not empty
DashboardRow ==
    /\ name # <<>>
    /\ out' = [op |-> "dashboard", logo |-> dashboardLogo(name, stored)]
    /\ UNCHANGED <<students, placements, notifications, nextSid, nextPid, swept,
                   companies, name, stored, sideVars>>

NextReport == WordReportRow \/ DashboardRow

SpecReport == InitReport /\ [][NextReport]_vars

----------------------------------------------------------------------------
(* The rows of a report: GET /download/excel and GET /download/word on the    *)
(* server; exportToExcel and exportToWord of the admin dashboard, over the    *)
(* list answered by GET /api/placements and grouped by groupPlacements.       *)

Filters == {"all", "verified"}

\* a row, named by the document it is made from
StudentRow(o) == [type |-> "student", oid |-> o]
PlacementRow(n) == [type |-> "placement", oid |-> n]

recordOf(row) ==
    IF row.type = "student" THEN students[row.oid] ELSE placements[row.oid]

studentIdOf(row) ==
    IF row.type = "student" THEN students[row.oid].id ELSE placements[row.oid].studentId

\* Student.find(query) and Placement.find(placementQuery) of the downloads
serverRows(filter) ==
    {StudentRow(o) : o \in {s \in DOMAIN students :
        /\ students[s].photo # NoPhoto
        /\ filter = "verified" => students[s].verificationStatus = "verified"}}
    \cup
    {PlacementRow(n) : n \in {m \in DOMAIN placements :
        /\ ~placements[m].isOriginal
        /\ filter = "verified" => placements[m].verificationStatus = "verified"}}

\* response.placements of GET /api/placements: every student as an original
\* row, then the placements that are not original
allPlacements ==
    {StudentRow(o) : o \in DOMAIN students}
    \cup {PlacementRow(n) : n \in {m \in DOMAIN placements : ~placements[m].isOriginal}}

\* the key of the group of a row
groupOf(row) == toUpperCase(studentIdOf(row))

\* group.placements: the rows of the group that name a company
groupPlacements(id) ==
    {row \in allPlacements : groupOf(row) = id /\ recordOf(row).company # ""}

\* group.hasPending
hasPending(id) ==
    \E row \in groupPlacements(id) : recordOf(row).verificationStatus = "pending"

\* the row that created the group: the students come first in the list
firstRowOf(id) ==
    LET rows == {row \in allPlacements : groupOf(row) = id}
        ofStudents == {row \in rows : row.type = "student"}
        ofKind == IF ofStudents # {} THEN ofStudents ELSE rows
    IN  CHOOSE row \in ofKind : \A other \in ofKind : row.oid <= other.oid

\* the rows of exportToExcel and exportToWord: one per placement of a group,
\* or one for a group without placements
dashboardRows(filter) ==
    LET groups == {groupOf(row) : row \in allPlacements}
        kept == {g \in groups : filter = "verified" => ~hasPending(g)}
    IN  UNION {IF groupPlacements(g) # {} THEN groupPlacements(g) ELSE {firstRowOf(g)}
               : g \in kept}

----------------------------------------------------------------------------
(* GET /api/notifications and POST /api/notifications/read *)

MaxFeedNotifs == 21     \* Notification documents in a history of the feed
FeedLimit == 20         \* .limit(20)

NotificationOid(n) == <<"notification", n>>
NoId == <<"none", 0>>   \* req.body.id is missing

\* req.session.user.role === 'admin' ? 'admin' : req.session.user.id
recipientOf(caller) == IF caller.role = "admin" THEN "admin" ELSE caller.id

\* sort({ createdAt: -1 }): the documents are numbered in the order of their
\* creation, so the latest has the highest number
sortByCreatedAtDesc(hits) ==
    [k \in 1..Cardinality(hits) |->
        CHOOSE i \in hits : Cardinality({j \in hits : j > i}) = k - 1]

\* a variant of limit that returns every document
limitOff(docs, n) == docs

limit(docs, n) == SubSeq(docs, 1, IF Len(docs) < n THEN Len(docs) ELSE n)

\* the response lists the documents by their numbers
getNotifications(ns, caller) ==
    IF caller = NoSession
    THEN [code |-> 401, notifications |-> <<>>, unreadCount |-> 0]
    ELSE LET recipient == recipientOf(caller) IN
         [code |-> 200,
          notifications |->
            limit(sortByCreatedAtDesc({i \in DOMAIN ns : ns[i].recipient = recipient}),
                  FeedLimit),
          unreadCount |->
            Cardinality({i \in DOMAIN ns : ns[i].recipient = recipient /\ ~ns[i].read})]

\* a variant of markRead that flips the flag
markReadToggle(doc) == [doc EXCEPT !.read = ~doc.read]

\* the update { read: true }
markRead(doc) == [doc EXCEPT !.read = TRUE]

markAsRead(ns, caller, id, env) ==
    IF caller = NoSession
    THEN [notifications |-> ns, code |-> 401, success |-> FALSE]
    ELSE IF env.writeFails \/ id = BadId
    THEN \* the store refuses, or findByIdAndUpdate rejects with a CastError
         [notifications |-> ns, code |-> 500, success |-> FALSE]
    ELSE IF id # NoId
    THEN \* mark one: findByIdAndUpdate(req.body.id, { read: true })
         [notifications |->
            [i \in DOMAIN ns |-> IF NotificationOid(i) = id THEN markRead(ns[i]) ELSE ns[i]],
          code |-> 200, success |-> TRUE]
    ELSE \* mark all: updateMany({ recipient, read: false }, { read: true })
         [notifications |->
            [i \in DOMAIN ns |->
                IF ns[i].recipient = recipientOf(caller) /\ ~ns[i].read
                THEN markRead(ns[i]) ELSE ns[i]],
          code |-> 200, success |-> TRUE]

\* the notification a history holds for a recipient, as createNotification
\* writes it
Notice(recipient) ==
    createNotification(<<>>, recipient,
        IF recipient = "admin" THEN "New Placement Submission" ELSE verifyTitle("verified"),
        IF recipient = "admin" THEN "info" ELSE verifyType("verified"),
        FALSE).notifications[1]

\* the histories: every notification for the admin, or the recipients in turn
Histories ==
    {[i \in 1..n |-> Notice("admin")] : n \in 0..MaxFeedNotifs}
    \cup {[i \in 1..n |-> Notice(CASE i % 3 = 1 -> "admin" [] i % 3 = 2 -> "S1" [] OTHER -> "S2")]
            : n \in 0..MaxFeedNotifs}

\* the ids of the requests to mark as read
ReadIds == {NotificationOid(1), NotificationOid(MaxFeedNotifs), BadId, NoId}

ReadOutcomes == {e \in Outcomes : e.mailOk}

InitFeed ==
    /\ students =
        (1 :> [id |-> "S1", photo |-> photoUrl("S1"), company |-> "TCS", logo |-> "tcs.png",
               verificationStatus |-> "verified"])
        @@ (2 :> [id |-> "S2", photo |-> NoPhoto, company |-> "", logo |-> "",
                  verificationStatus |-> "verified"])
    /\ placements = <<>>
    /\ notifications \in Histories
    /\ nextSid = 3
    /\ nextPid = 1
    /\ swept = FALSE
    /\ ReportIdle
    /\ SideIdle

GetNotifications(caller) ==
    /\ out' = [op |-> "feed", caller |-> caller,
               resp |-> getNotifications(notifications, caller)]
    /\ UNCHANGED <<students, placements, notifications, nextSid, nextPid, swept,
                   companies, name, stored, sideVars>>

MarkAsRead(caller, id, env) ==
    LET r == markAsRead(notifications, caller, id, env) IN
    /\ notifications' = r.notifications
    /\ out' = [op |-> "read", id |-> id, code |-> r.code, success |-> r.success]
    /\ UNCHANGED <<students, placements, nextSid, nextPid, swept,
                   companies, name, stored, sideVars>>

NextFeed ==
    \/ \E caller \in Callers : GetNotifications(caller)
    \/ \E caller \in Callers, id \in ReadIds, env \in ReadOutcomes :
            MarkAsRead(caller, id, env)

SpecFeed == InitFeed /\ [][NextFeed]_vars

----------------------------------------------------------------------------
(* The student page: loadProfile (GET /api/my-profile) and submitPlacement,   *)
(* whose duplicate check reads the page's list of placements.                 *)

MaxSubmitted == 2       \* placements submitted from the student page

\* placementForm with the logo of the selected company
Forms ==
    { [company |-> "Google", salary |-> "12", logo |-> ""],
      [company |-> "google", salary |-> "5", logo |-> ""],
      [company |-> "TCS", salary |-> "5", logo |-> "tcs.png"] }

\* Placement.find({ studentId: /^id$/i, isOriginal: false })
myPlacements(caller) ==
    {n \in DOMAIN placements :
        /\ toLowerCase(placements[n].studentId) = toLowerCase(caller.id)
        /\ ~placements[n].isOriginal}

\* the page's check for a duplicate company
isDuplicate(listed, company) ==
    \E n \in DOMAIN listed : toLowerCase(listed[n].company) = toLowerCase(company)

\* loadProfile: the page keeps the student's photo and placements as answered
LoadProfile(caller) ==
    /\ out' = [op |-> "page", caller |-> caller,
               photo |-> IF findStudentRegex(caller.id) = 0 THEN NoPhoto
                         ELSE students[findStudentRegex(caller.id)].photo,
               myPlacements |-> [n \in myPlacements(caller) |-> placements[n]]]
    /\ UNCHANGED <<students, placements, notifications, nextSid, nextPid, swept,
                   companies, name, stored, sideVars>>

\* submitPlacement of the page, and POST /api/placements for the request it
\* sends; the page loads the profile again when the answer has arrived
PageSubmit(form, env) ==
    /\ out.op = "page"
    /\ out.photo # NoPhoto
    /\ ~isDuplicate(out.myPlacements, form.company)
    /\ LET r == submitPlacement(out.caller, form, env) IN
        /\ r.store.nextPid <= MaxSubmitted + 1
        /\ Install(r.store)

NextSubmit ==
    \/ \E caller \in Students : LoadProfile(caller)
    \/ \E form \in Forms, env \in Outcomes : PageSubmit(form, env)

SpecSubmit == Init /\ [][NextSubmit]_vars

----------------------------------------------------------------------------
(* The life of a Notification: the calls of createNotification in the         *)
(* handlers, and POST /api/notifications/read.                                *)

MaxDispatched == 3      \* Notification documents the dispatcher writes

\* recipient, title and type of the calls of createNotification
Dispatches ==
    {<<"admin", "New Placement Submission", "info">>}
    \cup {<<sid, verifyTitle(status), verifyType(status)>> :
            sid \in StudentIds, status \in {"verified", "rejected"}}
    \cup {<<sid, "Profile Status Update", "info">> : sid \in StudentIds}

Dispatch(d, writeFails) ==
    /\ Len(notifications) < MaxDispatched
    /\ notifications' =
            createNotification(notifications, d[1], d[2], d[3], writeFails).notifications
    /\ out' = [op |-> "dispatch"]
    /\ UNCHANGED <<students, placements, nextSid, nextPid, swept,
                   companies, name, stored, sideVars>>

DispatchedIds == {NotificationOid(n) : n \in 1..MaxDispatched} \cup {BadId, NoId}

NextNotify ==
    \/ \E d \in Dispatches, writeFails \in BOOLEAN : Dispatch(d, writeFails)
    \/ \E caller \in Callers, id \in DispatchedIds, env \in ReadOutcomes :
            MarkAsRead(caller, id, env)

SpecNotify == Init /\ [][NextNotify]_vars

----------------------------------------------------------------------------
(* The audit log: each handler with the call of logActivity it makes. A       *)
(* handler reaches its call of logActivity when it answers 200; an answer     *)
(* sent before (400, 401, 302) or from the catch (500) logs nothing.          *)

MaxLogs == 3            \* ActivityLog documents ever written

\* logActivity: ActivityLog.create({ user, role, action, details, ip }) in a try
\* whose catch only logs to the console
logActivity(ls, caller, action, writeFails) ==
    IF writeFails THEN ls
    ELSE Append(ls, [user |-> caller.id, role |-> caller.role, action |-> action])

\* the handler's result r is installed; entries is the log it leaves
InstallLogged(r, entries) ==
    /\ WithinBounds(r.store)
    /\ Len(entries) <= MaxLogs
    /\ students' = r.store.students
    /\ placements' = r.store.placements
    /\ notifications' = r.store.notifications
    /\ nextSid' = r.store.nextSid
    /\ nextPid' = r.store.nextPid
    /\ logs' = entries
    /\ UNCHANGED <<swept, reportVars, files, pc>>

\* a handler that calls logActivity(req, action, ...) before it answers
Logged(r, caller, action) ==
    InstallLogged(r, IF r.resp.code = 200
                     THEN logActivity(logs, caller, action, FALSE) ELSE logs)

\* a handler without a call of logActivity
NotLogged(r) == InstallLogged(r, logs)

NextAudit ==
    \/ \E caller \in Callers, body \in Payloads :
            Logged(submitPlacement(caller, body, NoFault), caller, "ADD_PLACEMENT")
    \/ \E caller \in Callers, id \in RequestIds :
            NotLogged(deletePlacement(caller, id))
    \/ \E caller \in Callers, hasFile \in BOOLEAN, cloudOk \in BOOLEAN :
            Logged(uploadPhoto(caller, hasFile, cloudOk), caller, "UPLOAD_PHOTO")
    \/ \E caller \in Callers, raw \in RawIds :
            Logged(createStudent(caller, raw, NoFault), caller, "CREATE_STUDENT")
    \/ \E caller \in Callers, raw \in RawIds :
            Logged(deleteStudent(caller, raw, NoFault), caller, "DELETE_STUDENT")
    \/ \E caller \in Callers, type \in VerifyTypes, id \in RequestIds,
          action \in VerifyActions :
            Logged(verify(caller, type, id, action, NoFault), caller, "VERIFY")

SpecAudit == Init /\ [][NextAudit]_vars

----------------------------------------------------------------------------
(* The startup passes: the callback of mongoose.connect calls                 *)
(* migratePasswords, checkStudentVerification and syncCompanies one after     *)
(* the other without awaiting them. Each pass is started by the callback and  *)
(* finishes on its own; its writes are installed when it finishes.            *)

MaxFiles == 2           \* files in the logos folder

\* String.prototype.toUpperCase of one character
upperChar(c) ==
    IF c \in Range(LowerLetters)
    THEN UpperLetters[CHOOSE i \in DOMAIN LowerLetters : LowerLetters[i] = c]
    ELSE c

\* logo.startsWith('http')
startsWithHttp(l) == Len(l) >= 4 /\ SubSeq(l, 1, 4) = <<"h", "t", "t", "p">>

\* the place of the last dot of a file name that is not its first character
lastDot(f) == Max({0} \cup {i \in DOMAIN f : i > 1 /\ f[i] = "."})

\* path.parse(f).name
parseName(f) == IF lastDot(f) = 0 THEN f ELSE SubSeq(f, 1, lastDot(f) - 1)

ImageExts == {<<"j", "p", "g">>, <<"j", "p", "e", "g">>, <<"p", "n", "g">>, <<"w", "e", "b", "p">>, <<"j", "f", "i", "f">>}

\* /\.(jpg|jpeg|png|webp|jfif)$/i.test(f)
isImageFile(f) ==
    \E i \in DOMAIN f :
        f[i] = "." /\ toLowerCaseName(SubSeq(f, i + 1, Len(f))) \in ImageExts

\* fs.existsSync(path.join(logoDir, logo))
existsSync(dir, logo) == \E i \in DOMAIN dir : dir[i] = logo

\* a variant of cleanedLogo that keeps every logo
cleanedLogoKept(dir, logo) == logo

\* step 1 for one company: a logo that is no remote URL and names a missing
\* file becomes the file of the same base name, or is cleared
cleanedLogo(dir, logo) ==
    IF logo = <<>> \/ startsWithHttp(logo) \/ existsSync(dir, logo) THEN logo
    ELSE LET match == {i \in DOMAIN dir :
                        toLowerCaseName(parseName(dir[i])) = toLowerCaseName(parseName(logo))}
         IN  IF match # {} THEN dir[Min(match)] ELSE <<>>

\* name.charAt(0).toUpperCase() + name.slice(1)
capitalize(n) == IF n = <<>> THEN n ELSE <<upperChar(n[1])>> \o Tail(n)

\* Company.findOne({ name: /^name$/i }): 0 for null
findCompanyRegex(cs, n) ==
    LET hits == {i \in DOMAIN cs : toLowerCaseName(cs[i].name) = toLowerCaseName(n)}
    IN  IF hits = {} THEN 0 ELSE Min(hits)

\* step 2: for each image file, a company is created when none has its base
\* name, and the file is attached to a company of that name without a logo
RECURSIVE addFiles(_, _)
addFiles(cs, todo) ==
    IF todo = <<>> THEN cs
    ELSE LET file == Head(todo)
             exists == findCompanyRegex(cs, parseName(file))
         IN  addFiles(
                IF exists = 0
                THEN Append(cs, [name |-> capitalize(parseName(file)), logo |-> file])
                ELSE IF cs[exists].logo = <<>>
                THEN [cs EXCEPT ![exists].logo = file]
                ELSE cs,
                Tail(todo))

\* the Company collection syncCompanies leaves
syncCompanies(cs, dir) ==
    addFiles([i \in DOMAIN cs |-> [cs[i] EXCEPT !.logo = cleanedLogo(dir, cs[i].logo)]],
             SelectSeq(dir, isImageFile))

GooglePng == <<"G", "o", "o", "g", "l", "e", ".", "p", "n", "g">>
FileNames ==
    {GooglePng, <<"g", "o", "o", "g", "l", "e", ".", "j", "p", "g">>, <<"i", "n", "f", "o", "s", "y", "s", ".", "P", "N", "G">>, <<"n", "o", "t", "e", "s", ".", "t", "x", "t">>}

\* the contents of the logos folder
Folders ==
    {d \in UNION {[1..k -> FileNames] : k \in 0..MaxFiles} :
        \A i \in DOMAIN d, j \in DOMAIN d : d[i] = d[j] => i = j}

\* the logo of a Company before the sync: none, a file that may be in the
\* folder, a file that is not, or a Cloudinary URL
SyncLogosOf(n) ==
    IF n = Google
    THEN {<<>>, GooglePng, <<"G", "o", "o", "g", "l", "e", ".", "g", "i", "f">>,
          <<"h", "t", "t", "p", "s", ":", "/", "/", "c", "/", "g", "o", "o", "g", "l", "e", ".", "p", "n", "g">>}
    ELSE {<<>>, <<"T", "C", "S", ".", "p", "n", "g">>,
          <<"h", "t", "t", "p", "s", ":", "/", "/", "c", "/", "t", "c", "s", ".", "p", "n", "g">>}

SyncRegistries ==
    {<<>>}
    \cup {<<[name |-> n, logo |-> l]>> : n \in {Google, TCS}, l \in SyncLogosOf(Google) \cup SyncLogosOf(TCS)}
    \cup {<<[name |-> Google, logo |-> g], [name |-> TCS, logo |-> t]>> :
            g \in SyncLogosOf(Google), t \in SyncLogosOf(TCS)}

Passes == {"migratePasswords", "checkStudentVerification", "syncCompanies"}

\* the order of the calls in the callback
CallOrder == <<"migratePasswords", "checkStudentVerification", "syncCompanies">>

InitStartup ==
    /\ students =
        (1 :> [id |-> "S1", photo |-> photoUrl("S1"), company |-> "TCS", logo |-> "tcs.png",
               verificationStatus |-> "verified"])
        @@ (2 :> [id |-> "S2", photo |-> NoPhoto, company |-> "", logo |-> "",
                  verificationStatus |-> "verified"])
    /\ placements = <<>>
    /\ notifications = <<>>
    /\ nextSid = 3
    /\ nextPid = 1
    /\ swept = FALSE
    /\ companies \in SyncRegistries
    /\ name = NoName
    /\ stored = ""
    /\ out = NoOut
    /\ logs = <<>>
    /\ files \in Folders
    /\ pc = [p \in Passes |-> "idle"]

\* mongoose.connect resolves: the callback calls the three passes; each runs
\* to its first await and returns a promise nobody awaits
Connect ==
    /\ \A p \in Passes : pc[p] = "idle"
    /\ pc' = [p \in Passes |-> "running"]
    /\ UNCHANGED <<students, placements, notifications, nextSid, nextPid, swept,
                   companies, name, stored, out, logs, files>>

\* migratePasswords finishes; the model's Student holds no password
MigratePasswordsDone ==
    /\ pc["migratePasswords"] = "running"
    /\ pc' = [pc EXCEPT !["migratePasswords"] = "done"]
    /\ UNCHANGED <<students, placements, notifications, nextSid, nextPid, swept,
                   companies, name, stored, out, logs, files>>

CheckStudentVerificationDone ==
    /\ pc["checkStudentVerification"] = "running"
    /\ pc' = [pc EXCEPT !["checkStudentVerification"] = "done"]
    /\ swept' = TRUE
    /\ students' = [o \in DOMAIN students |->
            IF students[o].photo = NoPhoto
            THEN [students[o] EXCEPT !.verificationStatus = "pending"]
            ELSE students[o]]
    /\ UNCHANGED <<placements, notifications, nextSid, nextPid,
                   companies, name, stored, out, logs, files>>

SyncCompaniesDone ==
    /\ pc["syncCompanies"] = "running"
    /\ pc' = [pc EXCEPT !["syncCompanies"] = "done"]
    /\ companies' = syncCompanies(companies, files)
    /\ UNCHANGED <<students, placements, notifications, nextSid, nextPid, swept,
                   name, stored, out, logs, files>>

NextStartup ==
    \/ Connect
    \/ MigratePasswordsDone
    \/ CheckStudentVerificationDone
    \/ SyncCompaniesDone

SpecStartup == InitStartup /\ [][NextStartup]_vars

----------------------------------------------------------------------------
(* POST /api/admin/send-pending-reminders. The handler awaits each send in    *)
(* its loop, so the request is followed through its awaits: pc holds the      *)
(* handler's locals while the request is in flight. The store starts as for   *)
(* the removal of placements, and the admin may delete a student meanwhile.   *)

\* await sendEmail(...): sendEmail catches the transport's error and resolves
\* false, so the await never throws
awaitSendEmail(to, transportOk) ==
    [threw |-> FALSE, attempts |-> sendEmail(to, transportOk)]

\* the try around the await: sentCount++ after it, errors.push in the catch
tally(locals, settled) ==
    IF settled.threw
    THEN [locals EXCEPT !.errors = Append(@, locals.student)]
    ELSE [locals EXCEPT !.sentCount = @ + 1]

\* Placement.find({ verificationStatus: 'pending', isOriginal: false }): the
\* owners' identifiers, in the order of the documents
pendingPlacements ==
    LET hits == {n \in DOMAIN placements :
                    /\ placements[n].verificationStatus = "pending"
                    /\ ~placements[n].isOriginal}
    IN  [k \in 1..Cardinality(hits) |->
            placements[CHOOSE n \in hits : Cardinality({m \in hits : m < n}) = k - 1].studentId]

RemindersResponse(count, total, errors, attempts) ==
    [op |-> "reminders", code |-> 200, count |-> count, total |-> total,
     errors |-> errors, mail |-> attempts]

SendPendingReminders(caller) ==
    /\ pc = NoneRunning
    /\ IF ~requireAdmin(caller)
       THEN /\ out' = [op |-> "reminders", code |-> 401]
            /\ pc' = pc
       ELSE IF pendingPlacements = <<>>
       THEN /\ out' = RemindersResponse(0, 0, <<>>, NoMail)
            /\ pc' = pc
       ELSE /\ Len(logs) < MaxLogs
            /\ out' = NoOut
            /\ pc' = [at |-> "loop", caller |-> caller, found |-> pendingPlacements,
                      todo |-> pendingPlacements, student |-> "", sentCount |-> 0,
                      errors |-> <<>>, mail |-> NoMail]
    /\ UNCHANGED <<students, placements, notifications, nextSid, nextPid, swept,
                   companies, name, stored, logs, files>>

\* the head of the loop: Student.findOne({ id: p.studentId }), continue if null,
\* else the send is started and awaited
NextReminder ==
    /\ pc # NoneRunning /\ pc.at = "loop" /\ pc.todo # <<>>
    /\ LET s == findStudentExact(Head(pc.todo)) IN
       pc' = IF s = 0 THEN [pc EXCEPT !.todo = Tail(@)]
             ELSE [pc EXCEPT !.at = "awaitSend", !.student = students[s].id]
    /\ UNCHANGED <<students, placements, notifications, nextSid, nextPid, swept,
                   companies, name, stored, out, logs, files>>

\* the awaited send settles
SendSettles(transportOk) ==
    /\ pc # NoneRunning /\ pc.at = "awaitSend"
    /\ LET settled == awaitSendEmail(studentEmail(pc.student), transportOk) IN
       pc' = [tally(pc, settled) EXCEPT !.at = "loop", !.todo = Tail(@),
                                        !.mail = @ \o settled.attempts]
    /\ UNCHANGED <<students, placements, notifications, nextSid, nextPid, swept,
                   companies, name, stored, out, logs, files>>

\* after the loop: logActivity, then the answer
RemindersRespond ==
    /\ pc # NoneRunning /\ pc.at = "loop" /\ pc.todo = <<>>
    /\ logs' = logActivity(logs, pc.caller, "SEND_REMINDERS", FALSE)
    /\ out' = RemindersResponse(pc.sentCount, Len(pc.found), pc.errors, pc.mail)
    /\ pc' = NoneRunning
    /\ UNCHANGED <<students, placements, notifications, nextSid, nextPid, swept,
                   companies, name, stored, files>>

NextMail ==
    \/ \E caller \in Callers : SendPendingReminders(caller)
    \/ NextReminder
    \/ \E transportOk \in BOOLEAN : SendSettles(transportOk)
    \/ RemindersRespond
    \/ \E raw \in RawIds : DeleteStudent(AdminUser, raw, NoFault)

SpecMail == InitImported /\ [][NextMail]_vars

----------------------------------------------------------------------------
(* Properties of the handlers. A property of a handler is stated for every   *)
(* request the handler can receive in a reachable database.                  *)

ValidBodies == {b \in Payloads : ~parseFloat(b.salary).nan}

\* the owner of placement n has a Student document
OwnerExists(n) == \E o \in DOMAIN students : students[o].id = placements[n].studentId

\* ns is old with exactly one Notification added, to `recipient`, of type `type`
OneMoreNotification(old, ns, recipient, type) ==
    /\ Len(ns) = Len(old) + 1
    /\ SubSeq(ns, 1, Len(old)) = old
    /\ ns[Len(ns)].recipient = recipient
    /\ ns[Len(ns)].type = type
    /\ ns[Len(ns)].read = FALSE

(* C1: for every placement owned by the requesting student and every prior  *)
(* status, a successful edit of its company, salary or logo leaves its      *)
(* verificationStatus pending (and writes the new content).                 *)
C1_EditResetsToPending ==
    \A caller \in Callers, id \in RequestIds, body \in Payloads :
        LET r == updatePlacement(caller, id, body) IN
        r.resp.success =>
            \E n \in DOMAIN placements :
                /\ id = PlacementOid(n)
                /\ placements[n].studentId = caller.id
                /\ r.store.placements[n].verificationStatus = "pending"
                /\ r.store.placements[n].company = body.company
                /\ r.store.placements[n].logo = body.logo

\* a verified placement whose owner's edit succeeds and returns it to pending
C1_Witness ==
    \E n \in DOMAIN placements, body \in ValidBodies :
        LET r == updatePlacement(StudentUser(placements[n].studentId),
                     PlacementOid(n), body)
        IN  /\ placements[n].verificationStatus = "verified"
            /\ body.company # placements[n].company
            /\ r.resp.success
            /\ r.store.placements[n].verificationStatus = "pending"

(* C2: an admin verify of type placement on an existing pending Placement   *)
(* whose owning Student exists sets its status to verified (approve) or     *)
(* rejected (reject) and creates exactly one Notification, addressed to the *)
(* owning student, of type success (approve) or warning (reject); no other  *)
(* record changes. Stated for a Notification write the store accepts; the   *)
(* refused write is the case of C5.                                         *)
C2_VerifyPendingPlacement ==
    \A n \in DOMAIN placements, action \in VerifyActions, env \in Outcomes :
        LET r == verify(AdminUser, "placement", PlacementOid(n), action, env) IN
        (/\ placements[n].verificationStatus = "pending"
         /\ OwnerExists(n)
         /\ ~env.writeFails)
        =>  /\ r.store.placements[n].verificationStatus =
                    (IF action = "approve" THEN "verified" ELSE "rejected")
            /\ OneMoreNotification(notifications, r.store.notifications,
                    placements[n].studentId,
                    IF action = "approve" THEN "success" ELSE "warning")
            /\ DOMAIN r.store.placements = DOMAIN placements
            /\ \A m \in DOMAIN placements \ {n} : r.store.placements[m] = placements[m]
            /\ r.store.students = students

\* an approved placement whose owner's latest notification is the success notice
C2_Witness ==
    \E n \in DOMAIN placements :
        /\ placements[n].verificationStatus = "verified"
        /\ OwnerExists(n)
        /\ Len(notifications) > 0
        /\ notifications[Len(notifications)].recipient = placements[n].studentId
        /\ notifications[Len(notifications)].type = "success"

\* the record a verify request names exists
Resolves(type, id) ==
    \/ type = "placement" /\ \E n \in DOMAIN placements : id = PlacementOid(n)
    \/ type = "original" /\ \E o \in DOMAIN students : id = StudentOid(o)

(* C3: an admin verify request (approve or reject, type placement or        *)
(* original) whose id resolves to no record reports failure, mutates no     *)
(* record and creates no Notification.                                      *)
C3_NotFoundReportsFailure ==
    \A type \in VerifyTypes, id \in RequestIds, action \in VerifyActions,
       env \in Outcomes :
        LET r == verify(AdminUser, type, id, action, env) IN
        ~Resolves(type, id) => (~r.resp.success /\ r.store = Store)

\* statuses only a verification decision gives
Decided == {"verified", "rejected"}

\* this step leaves Student o, or Placement n, in a decided status it did not
\* have before the step (a record the step creates had none)
StudentDecidedNow(o) ==
    /\ o \in DOMAIN students'
    /\ students'[o].verificationStatus \in Decided
    /\ (o \in DOMAIN students =>
            students[o].verificationStatus # students'[o].verificationStatus)

PlacementDecidedNow(n) ==
    /\ n \in DOMAIN placements'
    /\ placements'[n].verificationStatus \in Decided
    /\ (n \in DOMAIN placements =>
            placements[n].verificationStatus # placements'[n].verificationStatus)

\* this step is a request of the admin that writes a status: a verify, or the
\* creation of a Student
AdminRequest ==
    \/ \E type \in VerifyTypes, id \in RequestIds, action \in VerifyActions,
          env \in Outcomes : Verify(AdminUser, type, id, action, env)
    \/ \E raw \in RawIds, env \in MailOutcomes : CreateStudent(AdminUser, raw, env)

\* every verify request of a caller who is not the admin is answered 401 and
\* leaves the whole database, statuses and notifications included, as it was
C4_NonAdminDenied ==
    \A caller \in Callers \ {AdminUser}, type \in VerifyTypes, id \in RequestIds,
       action \in VerifyActions, env \in Outcomes :
        verify(caller, type, id, action, env)
            = Result(Store, Response(401, FALSE, NoMail))

\* a step that leaves a record in a decided status it did not have is a request
\* of the admin
C4_DecidedByAdmin ==
    ((\E o \in DOMAIN students' : StudentDecidedNow(o))
        \/ (\E n \in DOMAIN placements' : PlacementDecidedNow(n)))
    => AdminRequest

(* C4: a verify request from a caller with no session or with a role other  *)
(* than admin is rejected before the handler runs: it changes no status and *)
(* creates no Notification; and a record comes to be in status verified or  *)
(* rejected by a request of the admin only (the Student records present at  *)
(* the start keep the status they start with).                              *)
C4_OnlyAdminDecides == []C4_NonAdminDenied /\ [][C4_DecidedByAdmin]_vars

\* a pending placement whose own student asks to approve it, and is denied
C4_Witness ==
    \E n \in DOMAIN placements :
        /\ placements[n].verificationStatus = "pending"
        /\ verify(StudentUser(placements[n].studentId), "placement",
                  PlacementOid(n), "approve", NoFault).resp.code = 401

\* the status the record named by a verify request has in store st
StatusIn(st, type, id) ==
    IF type = "placement" THEN st.placements[id[2]].verificationStatus
    ELSE st.students[id[2]].verificationStatus

(* C5: during an admin verify of an existing record, when the Notification  *)
(* write is refused or the mail transport fails, the verify still answers   *)
(* 200 with success and the status it wrote stands.                         *)
C5_DispatchFailureDoesNotFailVerify ==
    \A type \in VerifyTypes, id \in RequestIds, action \in VerifyActions,
       env \in Outcomes :
        LET r == verify(AdminUser, type, id, action, env) IN
        (Resolves(type, id) /\ (env.writeFails \/ ~env.mailOk))
        =>  /\ r.resp.success
            /\ r.resp.code = 200
            /\ StatusIn(r.store, type, id) =
                    (IF action = "approve" THEN "verified" ELSE "rejected")

\* a placement that was approved while the Notification write was refused: it is
\* verified, its owner exists, and no notice of the decision was stored
C5_Witness ==
    \E n \in DOMAIN placements :
        /\ placements[n].verificationStatus = "verified"
        /\ OwnerExists(n)
        /\ \A i \in 1..Len(notifications) : notifications[i].type # "success"

(* C6: every Placement a submission creates has verificationStatus pending, *)
(* isOriginal false and the studentId of the authenticated student; a       *)
(* submission creates no Placement in status verified or rejected and       *)
(* leaves the existing Placements as they were.                             *)
C6_SubmittedIsPending ==
    \A caller \in Callers, body \in Payloads, env \in Outcomes :
        LET r == submitPlacement(caller, body, env) IN
        \A n \in DOMAIN r.store.placements :
            IF n \in DOMAIN placements
            THEN r.store.placements[n] = placements[n]
            ELSE /\ requireStudent(caller)
                 /\ r.store.placements[n].verificationStatus = "pending"
                 /\ r.store.placements[n].isOriginal = FALSE
                 /\ r.store.placements[n].studentId = caller.id

\* a stored submission: a pending, non-original Placement of a student on file
C6_Witness ==
    \E n \in DOMAIN placements :
        /\ placements[n].verificationStatus = "pending"
        /\ placements[n].isOriginal = FALSE
        /\ placements[n].studentId \in StudentIds
        /\ OwnerExists(n)

(* C7: a successful placement submission creates exactly one Notification,  *)
(* addressed to recipient 'admin'; a submission that is rejected creates    *)
(* none. Stated for a Notification write the store accepts.                 *)
C7_SubmissionNotifiesAdmin ==
    \A caller \in Callers, body \in Payloads, env \in Outcomes :
        LET r == submitPlacement(caller, body, env) IN
        /\ (r.resp.success /\ ~env.writeFails) =>
                OneMoreNotification(notifications, r.store.notifications, "admin", "info")
        /\ ~r.resp.success => r.store.notifications = notifications

\* a submitted placement is stored and the latest notification is the admin's
C7_Witness ==
    /\ \E n \in DOMAIN placements : placements[n].verificationStatus = "pending"
    /\ Len(notifications) > 0
    /\ notifications[Len(notifications)].recipient = "admin"

\* no Student document of this caller holds a photo
NoPhotoOnFile(caller) ==
    \A o \in DOMAIN students :
        toUpperCase(students[o].id) = toUpperCase(caller.id)
            => students[o].photo = NoPhoto

(* C8: a submission by a student with no profile photo on file is answered  *)
(* with a validation error (400) and leaves the store unchanged: no         *)
(* Placement, no Notification, no status change.                            *)
C8_NoPhotoRejected ==
    \A caller \in Students, body \in Payloads, env \in Outcomes :
        NoPhotoOnFile(caller) =>
            submitPlacement(caller, body, env)
                = Result(Store, Response(400, FALSE, NoMail))

\* a student without a photo submits to a store that already holds a placement
C8_Witness ==
    \E caller \in Students, body \in ValidBodies :
        /\ findStudentRegex(caller.id) # 0
        /\ NoPhotoOnFile(caller)
        /\ DOMAIN placements # {}
        /\ submitPlacement(caller, body, NoFault).resp.code = 400

\* this step is an admin verify request
AdminVerify ==
    \E type \in VerifyTypes, id \in RequestIds, action \in VerifyActions,
       env \in Outcomes : Verify(AdminUser, type, id, action, env)

(* C9: a record's status changes to verified or to rejected only from       *)
(* pending and only by an admin verify: no step takes a record from         *)
(* verified to rejected or from rejected to verified.                       *)
C9_DecidedOnlyFromPending ==
    [][/\ \A o \in DOMAIN students \cap DOMAIN students' :
            StudentDecidedNow(o) =>
                students[o].verificationStatus = "pending" /\ AdminVerify
       /\ \A n \in DOMAIN placements \cap DOMAIN placements' :
            PlacementDecidedNow(n) =>
                placements[n].verificationStatus = "pending" /\ AdminVerify]_vars

\* the Student documents of the caller's identifier
OwnDocs(caller) ==
    {o \in DOMAIN students : toUpperCase(students[o].id) = toUpperCase(caller.id)}

\* a successful upload leaves the uploader pending with the new photo, and every
\* other Student document as it was
C10_UploadSetsPending ==
    \A caller \in Callers, hasFile \in BOOLEAN, cloudOk \in BOOLEAN :
        LET r == uploadPhoto(caller, hasFile, cloudOk) IN
        r.resp.success =>
            /\ DOMAIN r.store.students = DOMAIN students
            /\ \A o \in DOMAIN students :
                IF o \in OwnDocs(caller)
                THEN /\ r.store.students[o].verificationStatus = "pending"
                     /\ r.store.students[o].photo = photoUrl(caller.id)
                ELSE r.store.students[o] = students[o]

\* Student o is pending after an upload: only an upload leaves a photo on a
\* pending document
PendingAfterUpload(o) ==
    students[o].photo # NoPhoto /\ students[o].verificationStatus = "pending"

\* a step that ends the pending status of an uploader is an admin verify, approve
\* or reject, of that Student
C10_LeavesPendingByVerify ==
    \A o \in DOMAIN students \cap DOMAIN students' :
        (PendingAfterUpload(o) /\ students'[o].verificationStatus # "pending")
        => \E action \in VerifyActions, env \in Outcomes :
                Verify(AdminUser, "original", StudentOid(o), action, env)

(* C10, as amended: a successful photo upload sets the uploading Student's  *)
(* status to pending whatever it was, and changes no other Student; the     *)
(* status then stays pending until an admin verify action, approve or       *)
(* reject, on that student.                                                 *)
C10_UploadPendingUntilVerify ==
    []C10_UploadSetsPending /\ [][C10_LeavesPendingByVerify]_vars

\* a student whose photo is on file and whose status is pending
C10_Witness ==
    \E o \in DOMAIN students : PendingAfterUpload(o) /\ students[o].id = "S1"

(* C10, as stated: after an upload the status stays pending until an admin  *)
(* approve action on that student.                                          *)
C10_PendingUntilApprove ==
    [][\A o \in DOMAIN students \cap DOMAIN students' :
        (PendingAfterUpload(o) /\ students'[o].verificationStatus # "pending")
        => \E env \in Outcomes :
                Verify(AdminUser, "original", StudentOid(o), "approve", env)]_vars

\* what a delete request of a student removes satisfies the filter; a request for
\* a placement of another student, or for an original one, removes nothing and
\* answers success false
C11_StudentDeleteScoped ==
    \A caller \in Callers, id \in DeleteIds :
        LET r == deletePlacement(caller, id) IN
        /\ \A n \in DOMAIN placements :
            IF n \in DOMAIN r.store.placements
            THEN r.store.placements[n] = placements[n]
            ELSE /\ requireStudent(caller)
                 /\ id = PlacementOid(n)
                 /\ placements[n].studentId = caller.id
                 /\ placements[n].isOriginal = FALSE
        /\ \A n \in DOMAIN placements :
            (id = PlacementOid(n)
                /\ (placements[n].studentId # caller.id \/ placements[n].isOriginal))
            => (r.store = Store /\ r.resp.success = FALSE)

\* a step that removes a Placement is its owner's delete request for it, the
\* Placement not being original, or the admin's deletion of the owning student
C11_RemovedByOwnerOrCascade ==
    \A n \in DOMAIN placements \ DOMAIN placements' :
        \/ /\ ~placements[n].isOriginal
           /\ DeletePlacement(StudentUser(placements[n].studentId), PlacementOid(n))
        \/ \E raw \in RawIds, env \in MailOutcomes :
            /\ toUpperCase(raw) = toUpperCase(placements[n].studentId)
            /\ DeleteStudent(AdminUser, raw, env)

(* C11, as amended: a student's delete request removes a Placement only if  *)
(* it is not original and the requester owns it, and a request for another  *)
(* student's placement or an original one removes nothing and reports       *)
(* success false; the only other removal is the admin's deletion of a       *)
(* Student, which removes every Placement of that student.                  *)
C11_DeleteOwnedOrCascade ==
    []C11_StudentDeleteScoped /\ [][C11_RemovedByOwnerOrCascade]_vars

\* after one removal the Placement left is an original one of S1, which neither
\* its owner nor another student can delete
C11_Witness ==
    \E n \in DOMAIN placements :
        /\ DOMAIN placements = {n}
        /\ placements[n].isOriginal /\ placements[n].studentId = "S1"
        /\ deletePlacement(StudentUser("S1"), PlacementOid(n))
                = Result(Store, Response(200, FALSE, NoMail))
        /\ deletePlacement(StudentUser("S2"), PlacementOid(n))
                = Result(Store, Response(200, FALSE, NoMail))

(* C11, as stated: a Placement is removed from the store only if it is not  *)
(* original and the requester is the student who owns it.                   *)
C11_RemovedOnlyByOwner ==
    [][\A n \in DOMAIN placements \ DOMAIN placements' :
        /\ ~placements[n].isOriginal
        /\ DeletePlacement(StudentUser(placements[n].studentId), PlacementOid(n))]_vars

\* token t ends key w
EndsWith(w, t) == Len(w) >= Len(t) /\ SubSeq(w, Len(w) - Len(t) + 1, Len(w)) = t

(* C14: normalizeCompanyName is total and deterministic: empty or missing    *)
(* input gives the empty key, and for every other input the key holds only  *)
(* lower-case letters and digits and does not end in any of ltd, limited,   *)
(* pvt, private, inc, llp, tech, technologies or solutions.                 *)
C14_KeyHasNoSuffix ==
    out.op = "normalize" =>
        /\ (name \in {NoName, <<>>} => out.key = <<>>)
        /\ \A i \in DOMAIN out.key : out.key[i] \in Range(LowerLetters) \cup Digits
        /\ \A t \in SuffixTokens : ~EndsWith(out.key, t)

RECURSIVE WithSuffixWords(_, _)
WithSuffixWords(B, k) ==
    IF k = 0 THEN B
    ELSE WithSuffixWords(B, k - 1) \cup
         {n \o sep \o t : n \in WithSuffixWords(B, k - 1), sep \in Separators,
                          t \in SuffixWords}

\* nm is the name n followed by one or more suffix words
FollowedBySuffixes(nm, n) == nm # n /\ nm \in WithSuffixWords({n}, MaxSuffixWords)

\* Company document i is the only one of the registry under its key
OnlyUnderItsKey(i) ==
    \A j \in DOMAIN companies :
        normalizeCompanyName(companies[j].name) = normalizeCompanyName(companies[i].name)
            => j = i

(* C12: for a row whose company name is a registry company's name followed  *)
(* by corporate-suffix words, the registry entry holding a Cloudinary logo, *)
(* the normalizer gives both names the same key and the Word report         *)
(* resolves the row's logo to that entry's logo.                            *)
C12_SuffixedNameResolves ==
    \A i \in DOMAIN companies :
        (/\ FollowedBySuffixes(name, companies[i].name)
         /\ includesCloudinary(companies[i].logo)
         /\ OnlyUnderItsKey(i))
        =>  /\ normalizeCompanyName(name) = normalizeCompanyName(companies[i].name)
            /\ out.op = "word" => out.logo = companies[i].logo

\* the two lookups give a and b the same registry logo
SameLookup(a, b) ==
    /\ registryLogo(a) = registryLogo(b)
    /\ getCompanyLogo(a) = getCompanyLogo(b)

(* C13: for all company names a and b and every state of the registry, if   *)
(* normalize(a) = normalize(b) then the server's and the dashboard's logo   *)
(* lookup return for a the logo they return for b. The row's name is a; it  *)
(* ranges over every name, the empty one included.                          *)
C13_SameKeySameLookup ==
    \A b \in RowNames :
        normalizeCompanyName(name) = normalizeCompanyName(b) => SameLookup(name, b)

\* the same for the names that are not empty
SameKeySameLookupOfNamed ==
    \A b \in RowNames \ {<<>>} :
        (name # <<>> /\ normalizeCompanyName(name) = normalizeCompanyName(b))
            => SameLookup(name, b)

\* the logos of the registry entries found under the row's normalized name
HitLogos ==
    {companies[i].logo : i \in {j \in DOMAIN companies :
        /\ companies[j].logo # ""
        /\ normalizeCompanyName(companies[j].name) = normalizeCompanyName(name)}}

\* a fully-qualified remote URL
isRemoteUrl(l) ==
    includesCloudinary(l) \/ l = "https://logo.example.org/stored.png"

(* C16: the logo of a report row is the logo of the registry entry found    *)
(* under the row's normalized company name, if there is one; otherwise the  *)
(* row's stored logo, only if that is a fully-qualified remote URL;         *)
(* otherwise none. A stored logo is never used when the registry has a hit. *)
C16_LogoResolutionOrder ==
    out.op \in {"word", "dashboard"} =>
        IF HitLogos # {} THEN out.logo \in HitLogos
        ELSE out.logo = "" \/ (out.logo = stored /\ isRemoteUrl(stored))

(* C15: with filter verified, every row of a report is made from a record   *)
(* whose verificationStatus is verified, in the server's downloads and in   *)
(* the dashboard's exports.                                                 *)
C15_VerifiedFilterOnlyVerified ==
    \A row \in serverRows("verified") \cup dashboardRows("verified") :
        recordOf(row).verificationStatus = "verified"

\* the same for the server's downloads alone
ServerVerifiedFilterOnlyVerified ==
    \A row \in serverRows("verified") : recordOf(row).verificationStatus = "verified"

\* the notifications addressed to a recipient
AddressedTo(recipient) ==
    {i \in DOMAIN notifications : notifications[i].recipient = recipient}

(* C17: for every authenticated caller the feed answers at most 20          *)
(* notifications, all addressed to the caller's recipient identity (admin   *)
(* for an admin, the own identifier for a student), the most recent ones by *)
(* creation, latest first; and the unread count is the number of all        *)
(* notifications addressed to that recipient with read = false.             *)
C17_FeedOfRecipient ==
    \A caller \in Callers \ {NoSession} :
        LET r == getNotifications(notifications, caller)
            mine == AddressedTo(IF caller = AdminUser THEN "admin" ELSE caller.id)
            shown == {r.notifications[k] : k \in DOMAIN r.notifications}
        IN  /\ r.code = 200
            /\ Len(r.notifications) <= 20
            /\ Cardinality(shown) = Len(r.notifications)
            /\ shown \subseteq mine
            /\ \A i \in shown, j \in mine \ shown : j < i
            /\ mine \ shown # {} => Len(r.notifications) = 20
            /\ \A k \in 1..(Len(r.notifications) - 1) :
                    r.notifications[k] > r.notifications[k + 1]
            /\ r.unreadCount = Cardinality({i \in mine : ~notifications[i].read})

\* the admin, holding 21 notifications and having read the latest, is answered
\* the latest 20 and an unread count that includes the one not shown
C17_Witness ==
    /\ out.op = "feed"
    /\ out.caller = AdminUser
    /\ Cardinality(AddressedTo("admin")) = 21
    /\ notifications[21].read
    /\ out.resp = getNotifications(notifications, AdminUser)
    /\ Len(out.resp.notifications) = 20
    /\ out.resp.notifications[1] = 21
    /\ out.resp.unreadCount = 20

(* C18: markAsRead is idempotent: for every logged-in caller and every      *)
(* notification, two calls with that notification's id both answer 200 with *)
(* success, the notification has read = true after each, and the second     *)
(* call leaves the store as the first left it.                              *)
C18_MarkAsReadIdempotent ==
    \A caller \in Callers \ {NoSession}, i \in DOMAIN notifications :
        LET first == markAsRead(notifications, caller, NotificationOid(i), NoFault)
            second == markAsRead(first.notifications, caller, NotificationOid(i), NoFault)
        IN  /\ first.code = 200 /\ first.success
            /\ first.notifications[i].read
            /\ second.code = 200 /\ second.success
            /\ second.notifications[i].read
            /\ second.notifications = first.notifications

\* a call with the id of notification 1 has been answered with success and the
\* notification is read, the next one is not; a further call changes nothing
C18_Witness ==
    /\ out.op = "read"
    /\ out.id = NotificationOid(1)
    /\ out.code = 200 /\ out.success
    /\ Len(notifications) >= 2
    /\ notifications[1].read
    /\ ~notifications[2].read
    /\ \A caller \in Callers \ {NoSession} :
            markAsRead(notifications, caller, NotificationOid(1), NoFault).notifications
                = notifications

(* C19: a student never owns two Placements whose company names are equal  *)
(* ignoring case, after any submissions from the student page, two requests *)
(* sent before the page has loaded the profile again included.              *)
C19_NoSameCompanyTwice ==
    \A m \in DOMAIN placements, n \in DOMAIN placements :
        (/\ m # n
         /\ toLowerCase(placements[m].studentId) = toLowerCase(placements[n].studentId))
        => toLowerCase(placements[m].company) # toLowerCase(placements[n].company)

\* the same while the page lists every placement the student owns
FreshPageNoSameCompanyTwice ==
    [][(\E form \in Forms, env \in Outcomes : PageSubmit(form, env))
        /\ DOMAIN out.myPlacements = myPlacements(out.caller)
        /\ C19_NoSameCompanyTwice
            => C19_NoSameCompanyTwice']_vars

(* C20: once the startup sweep has run, a Student with no photo on record   *)
(* has status pending, in every state reached afterwards.                   *)
C20_NoPhotoIsPending ==
    swept => \A o \in DOMAIN students :
                students[o].photo = NoPhoto => students[o].verificationStatus = "pending"

\* the sweep itself: a Student with no photo becomes pending, every other
\* Student is left as it is
SweepSetsNoPhotoPending ==
    [][(~swept /\ swept') =>
        /\ DOMAIN students' = DOMAIN students
        /\ \A o \in DOMAIN students :
              students'[o] = IF students[o].photo = NoPhoto
                             THEN [students[o] EXCEPT !.verificationStatus = "pending"]
                             ELSE students[o]]_vars

(* C21: across every step a persisted Notification is not deleted, its     *)
(* recipient, title and type do not change, and its read flag does not go   *)
(* from true to false.                                                      *)
C21_NotificationKept ==
    [][/\ DOMAIN notifications \subseteq DOMAIN notifications'
       /\ \A i \in DOMAIN notifications :
            /\ [notifications'[i] EXCEPT !.read = notifications[i].read] = notifications[i]
            /\ notifications[i].read => notifications'[i].read]_vars

\* three notifications are persisted, the first has been read by a request
\* that named it, the last has not been read
C21_Witness ==
    /\ Len(notifications) = 3
    /\ out.op = "read" /\ out.id = NotificationOid(1) /\ out.success
    /\ notifications[1].read
    /\ ~notifications[3].read
    /\ notifications[1].recipient # notifications[3].recipient

(* C22: every step that changes a Student or a Placement appends an entry   *)
(* to the ActivityLog, and no step modifies or removes an entry.            *)
C22_MutationsLogged ==
    [][/\ (students' # students \/ placements' # placements)
            => Len(logs') = Len(logs) + 1
       /\ Len(logs') >= Len(logs)
       /\ SubSeq(logs', 1, Len(logs)) = logs]_vars

\* the second half alone: the log only grows
LogAppendOnly ==
    [][Len(logs') >= Len(logs) /\ SubSeq(logs', 1, Len(logs)) = logs]_vars

\* the first half for every handler but the deletion of a placement
LoggedButPlacementDelete ==
    [][((students' # students \/ placements' # placements)
         /\ ~(students' = students /\ DOMAIN placements' # DOMAIN placements
              /\ DOMAIN placements' \subseteq DOMAIN placements))
            => Len(logs') = Len(logs) + 1]_vars

\* the sync has finished
SyncDone == DOMAIN pc = Passes /\ pc["syncCompanies"] = "done"

\* after the sync every image file of the folder has a Company of its base
\* name ignoring case, and every logo that is no remote URL names a file of
\* the folder
C23_FolderAndRegistryAgree ==
    SyncDone =>
        /\ \A i \in DOMAIN files :
              isImageFile(files[i]) =>
                \E c \in DOMAIN companies :
                    toLowerCaseName(companies[c].name) = toLowerCaseName(parseName(files[i]))
        /\ \A c \in DOMAIN companies :
              (companies[c].logo # <<>> /\ ~startsWithHttp(companies[c].logo))
                => \E i \in DOMAIN files : files[i] = companies[c].logo

\* the sync leaves a Company whose logo is a remote URL as it is
C23_RemoteUnchanged ==
    \A c \in DOMAIN companies :
        startsWithHttp(companies[c].logo)
            => c \in DOMAIN companies' /\ companies'[c] = companies[c]

C26_PassesSequential ==
    DOMAIN pc = Passes =>
        /\ \A k \in 2..Len(CallOrder) :
              pc[CallOrder[k]] # "idle" => pc[CallOrder[k - 1]] = "done"
        /\ Cardinality({p \in Passes : pc[p] = "running"}) <= 1

\* each pass runs once: a pass that has finished stays finished
PassesRunOnce ==
    [][DOMAIN pc = Passes =>
        \A p \in Passes : pc[p] = "done" => pc'[p] = "done"]_vars

\* the notifications a handler's result adds to the store
Added(r) ==
    {r.store.notifications[i] :
        i \in (Len(notifications) + 1)..Len(r.store.notifications)}

\* the address derived from a recipient
DerivedAddress(recipient) ==
    IF recipient = "admin" THEN EMAIL_USER ELSE studentEmail(recipient)

\* the response's send attempts hold one to the recipient's derived address
Emailed(r, note) ==
    \E k \in DOMAIN r.resp.mail : r.resp.mail[k].to = DerivedAddress(note.recipient)

\* the results of the handlers that call createNotification, for every request
DispatchingResults ==
    {submitPlacement(caller, body, env) :
        caller \in Callers, body \in Payloads, env \in Outcomes}
    \cup {verify(caller, type, id, action, env) :
        caller \in Callers, type \in VerifyTypes, id \in RequestIds,
        action \in VerifyActions, env \in Outcomes}

Content(doc) == <<doc.company, doc.salary, doc.logo>>

(* C25: under every interleaving of student edits and admin verifies, a     *)
(* step that changes the company, salary or logo of a Placement leaves it   *)
(* pending: a Placement in status verified or rejected holds the content it *)
(* had when the admin action set that status.                               *)
C25_StatusNeverSurvivesChange ==
    [][\A n \in DOMAIN placements \cap DOMAIN placements' :
        Content(placements'[n]) # Content(placements[n])
            => placements'[n].verificationStatus = "pending"]_vars

\* a rejected placement whose owner's edit changes its content and leaves it
\* pending, and which the admin's approve then verifies with that content
C25_Witness ==
    \E n \in DOMAIN placements, body \in ValidBodies :
        LET edited == updatePlacement(StudentUser(placements[n].studentId),
                          PlacementOid(n), body).store.placements[n]
        IN  /\ placements[n].verificationStatus = "rejected"
            /\ Content(edited) # Content(placements[n])
            /\ edited.verificationStatus = "pending"
            /\ Content(verify(AdminUser, "placement", PlacementOid(n), "approve",
                               NoFault).store.placements[n]) = Content(placements[n])

(* C27: an operation that triggers an email answers without waiting for    *)
(* the send to finish: no request in flight is waiting for an email send.   *)
C27_NeverAwaitsSend == pc # NoneRunning => pc.at # "awaitSend"

\* the reminders have been answered
RemindersAnswered == out.op = "reminders" /\ out.code = 200

(* C29: the count the reminder operation reports equals the number of       *)
(* reminder emails whose send succeeded, and every send that failed is      *)
(* listed in the returned errors.                                           *)
C29_CountIsSucceededSends ==
    RemindersAnswered =>
        /\ out.count = Cardinality({k \in DOMAIN out.mail : out.mail[k].ok})
        /\ Len(out.errors) = Cardinality({k \in DOMAIN out.mail : ~out.mail[k].ok})

\* the reminders go to owners of the pending placements that are not original
RemindersToPendingOwners ==
    pc # NoneRunning =>
        /\ \A k \in DOMAIN pc.mail :
              \E j \in DOMAIN pc.found : pc.mail[k].to = studentEmail(pc.found[j])
        /\ Len(pc.mail) <= Len(pc.found)

(* C28: a mark-as-read request, with an id or with none, changes only      *)
(* notifications addressed to the caller's own recipient identity: every    *)
(* notification of another recipient is after the request as it was before. *)
C28_MarkAsReadOwnOnly ==
    \A caller \in Callers, id \in ReadIds, env \in ReadOutcomes :
        LET after == markAsRead(notifications, caller, id, env).notifications IN
        \A i \in DOMAIN notifications :
            notifications[i].recipient # recipientOf(caller) => after[i] = notifications[i]

\* the request without an id marks the caller's own notifications only
MarkAllOwnOnly ==
    \A caller \in Callers \ {NoSession}, env \in ReadOutcomes :
        LET after == markAsRead(notifications, caller, NoId, env).notifications IN
        \A i \in DOMAIN notifications :
            notifications[i].recipient # recipientOf(caller) => after[i] = notifications[i]

(* C30: the server's normalizeCompanyName and the dashboard's normalize     *)
(* return the same key for every company name: for the name at hand the two *)
(* keys are equal, and the key the server has computed is the dashboard's.  *)
C30_ServerAndDashboardKeysAgree ==
    name # NoName =>
        /\ normalize(name) = normalizeCompanyName(name)
        /\ out.op = "normalize" => out.key = normalize(name)

\* the server has computed the key "google" of a longer name with capitals and
\* a suffix word, and the dashboard's key of that name is the same
C30_Witness ==
    /\ out.op = "normalize"
    /\ Len(name) > Len(Google)
    /\ SubSeq(name, 1, Len(Google)) = Google
    /\ out.key = toLowerCaseName(Google)
    /\ normalize(name) = out.key

====
